---- MODULE Spec2Model ----
(***************************************************************************)
(* WorkWeRoBot: the handler registry, the dispatcher (BaseRoBot.get_reply), *)
(* the reply path (get_encrypted_reply) and the bottle view.                *)
(* Worker threads serve requests; registration calls change the registry.   *)
(***************************************************************************)
EXTENDS Integers, Sequences, FiniteSets, TLC

VARIABLES
    handlers,          \* self._handlers: type key -> list of (func, argc)
    make_error_page,   \* self.make_error_page
    config,            \* self.config: TOKEN, ENCODING_AES_KEY, SESSION_STORAGE
    use_encryption,    \* the instance attribute use_encryption, "unset" while absent
    crypto_cached,     \* whether the cached_property crypto has been computed
    storage,           \* contents of the session storage: id -> session
    regResult,         \* the last registration call and how it ended ("ok" or the exception)
    pc,                \* per worker: position in the view / get_reply
    request,           \* per worker: the HTTP request being served
    message,           \* per worker: the message being dispatched
    ss,                \* per worker: get_reply's local session_storage is not None
    id,                \* per worker: get_reply's local id
    session,           \* per worker: get_reply's local session
    hlist,             \* per worker: get_reply's local handlers
    idx,               \* per worker: position of the for loop in hlist
    reply,             \* per worker: value returned by get_reply
    response,          \* per worker: what the view returned (or the exception it raised)
    calls,             \* per worker: handler invocations of the current dispatch
    reads,             \* per worker: storage reads of the current dispatch
    writes,            \* per worker: storage writes of the current dispatch
    verified,          \* per worker: a signature check of the current request succeeded
    crypt,             \* per worker: crypto operations attempted for the current request
    log,               \* per worker: records the logger received for the current request
    client,            \* the Client: its attributes _token and token_expires_at
    clock              \* the clock that time.time() reads, in ticks

robotVars == <<handlers, make_error_page, config, use_encryption, crypto_cached>>
localVars == <<message, ss, id, session, hlist, idx, reply>>
histVars  == <<calls, reads, writes, verified, crypt, log>>
clientVars == <<client, clock>>
vars == <<handlers, make_error_page, config, use_encryption, crypto_cached, storage,
          regResult, pc, request, message, ss, id, session, hlist, idx, reply,
          response, calls, reads, writes, verified, crypt, log, client, clock>>

----------------------------------------------------------------------------
(* Bounds *)

\* registrations accepted by the model (entries over all lists of the registry)
MaxHandlers == 3

----------------------------------------------------------------------------
(* Values *)

Procs == {"w1", "w2"}

NoneVal == "<None>"                  \* Python None as a handler return value
NoneObj == [t |-> "None"]            \* Python None where objects are expected
NoId    == <<"None">>                \* id = None

\* to_binary: text -> bytes
to_binary(s) == <<"bytes", s>>
\* truth value of a bytes object: empty bytes are falsy, None is falsy
TruthyId(i) == Len(i) = 2 /\ i[2] # ""
\* truth value of a handler's return value: None and "" are falsy
Truthy(v) == v \notin {NoneVal, ""}

Senders == {"u1", "u2"}
Ids == {to_binary(s) : s \in Senders}

\* a session is a mapping; the model keeps the set of marks handlers left in it
Dict(m) == [t |-> "dict", marks |-> m]
EmptySession == Dict({})

\* BaseRoBot.message_types
message_types == <<
    "subscribe_event", "unsubscribe_event", "click_event", "view_event",
    "scancode_waitmsg_event", "scancode_push_event", "pic_sysphoto_event",
    "pic_photo_or_album_event", "pic_weixin_event", "location_select_event",
    "LOCATION_event", "unknown_event", "text", "image", "link", "location",
    "voice", "unknown", "video" >>

Range(s) == {s[i] : i \in 1..Len(s)}

\* the keys of self._handlers after __init__
HandlerKeys == Range(message_types) \cup {"all"}

(* User functions. params: number of declared parameters; ret: what the     *)
(* function returns ("raise": it raises); mark: it adds its name to the     *)
(* session it is given.                                                      *)
Func(n, k, r, m) == [name |-> n, callable |-> TRUE, params |-> k, ret |-> r, mark |-> m]
hE == Func("hE", 0, NoneVal, FALSE)
hM == Func("hM", 2, "", TRUE)
hA == Func("hA", 1, "A", FALSE)
hB == Func("hB", 2, "B", TRUE)
hX == Func("hX", 1, "raise", FALSE)
hO == Func("hO", 1, "<object>", FALSE)
h3 == Func("h3", 3, "A", FALSE)
h2 == Func("h2", 2, "B", FALSE)
NotCallable == [name |-> "42", callable |-> FALSE, params |-> 0, ret |-> NoneVal, mark |-> FALSE]

Funcs == {hE, hM, hA, hB, hX}

\* callable(func)
callable(f) == f.callable
\* len(signature(func).parameters.keys())
argc_of(f) == f.params

Msg(t, s) == [type |-> t, source |-> s, target |-> "acct"]

----------------------------------------------------------------------------
(* Registry *)

TotalEntries(h) ==
    LET RECURSIVE Sum(_)
        Sum(S) == IF S = {} THEN 0
                  ELSE LET k == CHOOSE x \in S : TRUE
                       IN Len(h[k]) + Sum(S \ {k})
    IN Sum(DOMAIN h)

\* add_handler without the test of callable(func)
add_handler_unchecked(h, func, type) ==
    IF type \notin DOMAIN h
    THEN [handlers |-> h, result |-> "KeyError"]
    ELSE [handlers |-> [h EXCEPT ![type] = Append(@, <<func, func.params>>)],
          result |-> "ok"]

\* BaseRoBot.add_handler as a function of the registry: the registry after the
\* call and how the call ended
add_handler(h, func, type) ==
    IF ~callable(func)
    THEN [handlers |-> h, result |-> "ValueError"]
    ELSE IF type \notin DOMAIN h
    THEN [handlers |-> h, result |-> "KeyError"]
    ELSE [handlers |-> [h EXCEPT ![type] = Append(@, <<func, argc_of(func)>>)],
          result |-> "ok"]

\* get_handlers with the two lists in the other order
get_handlers_all_first(h, type) ==
    h["all"] \o (IF type \in DOMAIN h THEN h[type] ELSE <<>>)

\* BaseRoBot.get_handlers
get_handlers(h, type) ==
    (IF type \in DOMAIN h THEN h[type] ELSE <<>>) \o h["all"]

\* get_handlers extending the list of the type in place
handlers_after_get_extended(h, type) ==
    IF type \in DOMAIN h THEN [h EXCEPT ![type] = @ \o h["all"]] ELSE h

\* line 351: the + of two lists builds a new list, and get of a missing type
\* stores nothing; the registry is left as it is
handlers_after_get(h, type) == h

----------------------------------------------------------------------------
(* Calling a handler *)

Min(a, b) == IF a < b THEN a ELSE b

\* [message, session][:args_count]
handler_args(msg, sess, args_count) == SubSeq(<<msg, sess>>, 1, Min(args_count, 2))

(* The call of a user function: it raises when the function raises, when it *)
(* is given a number of arguments it does not declare, or when it marks a   *)
(* session that is None; a marking function adds its name to the session.   *)
Call(f, args) ==
    LET bad == \/ f.ret = "raise"
               \/ f.params # Len(args)
               \/ (f.mark /\ args[2].t # "dict")
    IN IF bad
       THEN [raised |-> TRUE, ret |-> NoneVal, session |-> NoneObj]
       ELSE [raised |-> FALSE, ret |-> f.ret,
             session |-> IF Len(args) < 2 THEN NoneObj
                         ELSE IF f.mark THEN Dict(args[2].marks \cup {f.name})
                         ELSE args[2]]

(* Text as a sequence of characters, so that equality, a match at the start *)
(* and containment are computed.                                            *)
Hi == <<"h", "i">>
HiYou == <<"h", "i", "!">>
OhHi == <<"o", "h", "i">>

\* utils.to_text of a text string: the string itself (under Python 3 a rule
\* of bytes is not in six.string_types and never reaches to_text)
to_text(v) == v

(* The rules of a filter: a text string, a compiled pattern of literal      *)
(* characters, or a value that is neither.                                  *)
StrRule(v) == [kind |-> "str", v |-> v]
Pattern(v) == [kind |-> "regex", v |-> v]
BadRule == [kind |-> "int", v |-> <<"1">>]

\* isinstance(target_content, six.string_types)
is_string(rule) == rule.kind = "str"
\* utils.is_regex
is_regex(rule) == rule.kind = "regex"

\* pattern.match(string): a match object when the string starts with the
\* pattern, None otherwise
re_match(pat, string) ==
    IF Len(pat) <= Len(string) /\ SubSeq(string, 1, Len(pat)) = pat
    THEN [t |-> "Match", re |-> pat, string |-> string, span |-> <<0, Len(pat)>>]
    ELSE NoneObj

Bool(b) == [t |-> "bool", v |-> b]

\* _check_content of a string rule, comparing by containment
check_content_contains(rule, msg) ==
    IF is_string(rule)
    THEN Bool(\E i \in 1..Len(msg.content) + 1 :
                 SubSeq(msg.content, i, i + Len(rule.v) - 1) = to_text(rule.v))
    ELSE re_match(rule.v, msg.content)

\* lines 369-379: the two definitions of _check_content
check_content(rule, msg) ==
    IF is_string(rule)
    THEN Bool(msg.content = to_text(rule.v))
    ELSE re_match(rule.v, msg.content)

\* the truth value of _check_result
CheckTruthy(res) == IF res.t = "bool" THEN res.v ELSE res.t # "None"

\* lines 386-388, passing the result of the check as it is
check_result_arg_kept(res) == res

\* lines 386-388: a bool result becomes None, a match object is kept
check_result_arg(res) == IF res.t = "bool" THEN NoneObj ELSE res

\* [message, session, _check_result][:argc]
filter_args(msg, sess, res, argc) == SubSeq(<<msg, sess, res>>, 1, Min(argc, 3))

(* The functions that add_filter and key_click register: a function of      *)
(* (message, session=None) around the user's function.                      *)
FilterAdapter(func, rule) ==
    [name |-> "_f", callable |-> TRUE, params |-> 2, ret |-> NoneVal, mark |-> FALSE,
     wraps |-> func, argc |-> argc_of(func), rule |-> rule]

KeyAdapter(func, key) ==
    [name |-> "onclick", callable |-> TRUE, params |-> 2, ret |-> NoneVal,
     mark |-> FALSE, wraps |-> func, argc |-> argc_of(func), key |-> key]

Inner(f, args) == [func |-> f, args |-> args]

\* the adapter returns None without calling the user's function
Skipped(sess) == [raised |-> FALSE, ret |-> NoneVal, session |-> sess, inner |-> NoneObj]

\* the adapter calls the user's function and returns what it returns
Wrapped(a, args, sess) ==
    LET out == Call(a.wraps, args)
    IN [raised |-> out.raised, ret |-> out.ret,
        session |-> IF Len(args) >= 2 /\ ~out.raised THEN out.session ELSE sess,
        inner |-> Inner(a.wraps, args)]

\* lines 383-389: _f(message, session)
filter_f(a, msg, sess) ==
    IF "content" \notin DOMAIN msg
    THEN [raised |-> TRUE, ret |-> NoneVal, session |-> NoneObj, inner |-> NoneObj]
    ELSE LET res == check_content(a.rule, msg)
         IN IF CheckTruthy(res)
            THEN Wrapped(a, filter_args(msg, sess, check_result_arg(res), a.argc), sess)
            ELSE Skipped(sess)

\* onclick comparing nothing
key_matches_always(msg, key) == TRUE

\* line 314: message.key == key
key_matches(msg, key) == msg.key = key

\* lines 312-315: onclick(message, session)
onclick(a, msg, sess) ==
    IF "key" \notin DOMAIN msg
    THEN [raised |-> TRUE, ret |-> NoneVal, session |-> NoneObj, inner |-> NoneObj]
    ELSE IF key_matches(msg, a.key)
         THEN Wrapped(a, handler_args(msg, sess, a.argc), sess)
         ELSE Skipped(sess)

(* The call of a handler of the registry with the arguments get_reply gives *)
(* it: an adapter of add_filter or key_click, or a user function.           *)
Invoke(f, args) ==
    IF "rule" \in DOMAIN f
    THEN filter_f(f, args[1], args[2])
    ELSE IF "key" \in DOMAIN f
         THEN onclick(f, args[1], args[2])
         ELSE LET out == Call(f, args)
              IN [raised |-> out.raised, ret |-> out.ret, session |-> out.session,
                  inner |-> NoneObj]

\* what a caller over HTTP is answered
Resp(st, b, e) == [status |-> st, body |-> b, exc |-> e]
EmptyBody == [kind |-> "empty"]

\* replies.process_function_reply: a string becomes a Text reply to the sender
\* of the message; a value of no known shape is an error, and so is a message
\* that has no source to reply to
process_function_reply(v, msg) ==
    IF v = "<object>"
    THEN [t |-> "ReplyFormatError"]
    ELSE IF "source" \notin DOMAIN msg
         THEN [t |-> "AttributeError"]
         ELSE [t |-> "TextReply", target |-> msg.source, source |-> msg.target,
               content |-> v]

ReplyErrors == {"ReplyFormatError", "AttributeError"}

\* get_reply returning the value of the handler as it is
function_reply_raw(v, msg) == [t |-> "str", content |-> v]

\* line 433: return process_function_reply(reply, message=message)
function_reply(v, msg) == process_function_reply(v, msg)

\* an except clause for the exceptions of handlers only
Caught_from_handlers(exc) == exc = "handler"

\* line 434: the bare except clause catches every exception
Caught(exc) == TRUE

\* the time of a reply that was given none
ReplyTime == "1359803261"

CData(v) == <<"<![CDATA[", v, "]]>">>

\* TextReply.render: the elements of the rendered document in order
Render(rep) ==
    << <<"ToUserName", CData(rep.target)>>,
       <<"FromUserName", CData(rep.source)>>,
       <<"CreateTime", ReplyTime>>,
       <<"MsgType", CData("text")>>,
       <<"Content", CData(rep.content)>>,
       <<"FuncFlag", "0">> >>

----------------------------------------------------------------------------
(* BaseRoBot.get_reply *)

\* a session_storage property that installs a storage whatever the option
session_storage_always(cfg) == TRUE

\* the session_storage property: False disables sessions, an unset option
\* installs the default storage
session_storage(cfg) == cfg.SESSION_STORAGE # "False"
ConfigAfterSessionStorage(cfg) ==
    IF cfg.SESSION_STORAGE = "None"
    THEN [cfg EXCEPT !.SESSION_STORAGE = "SQLiteStorage"]
    ELSE cfg

\* line 421: the session is looked up
ReadsSession(has_storage, msg) == has_storage /\ "source" \in DOMAIN msg

\* the session is never stored
WritesSession_never(has_storage, i) == FALSE
\* line 430: the session is stored
WritesSession(has_storage, i) == has_storage /\ TruthyId(i)

\* no value ends the dispatch
EndsDispatch_never(v) == FALSE
\* line 432: the value ends the dispatch
EndsDispatch(v) == Truthy(v)

\* lines 417-425
\* one key for the sessions of every sender
session_id_shared(msg) == to_binary("u1")

\* line 422: id = to_binary(message.source)
session_id(msg) == to_binary(msg.source)

\* a lookup that answers a new session every time
storage_get_new(st, i) == EmptySession

\* line 423: session_storage[id]
storage_get(st, i) == st[i]

GetReplyBegin(p, msg) ==
    LET has == session_storage(config)
        rd  == ReadsSession(has, msg)
    IN /\ config' = ConfigAfterSessionStorage(config)
       /\ message' = [message EXCEPT ![p] = msg]
       /\ ss' = [ss EXCEPT ![p] = has]
       /\ id' = [id EXCEPT ![p] = IF rd THEN session_id(msg) ELSE NoId]
       /\ session' = [session EXCEPT ![p] =
                         IF rd THEN storage_get(storage, session_id(msg)) ELSE NoneObj]
       /\ handlers' = handlers_after_get(handlers, msg.type)
       /\ reads' = [reads EXCEPT ![p] = IF rd THEN 1 ELSE 0]
       /\ writes' = [writes EXCEPT ![p] = 0]
       /\ calls' = [calls EXCEPT ![p] = <<>>]
       /\ hlist' = [hlist EXCEPT ![p] = get_handlers(handlers, msg.type)]
       /\ idx' = [idx EXCEPT ![p] = 1]
       /\ reply' = [reply EXCEPT ![p] = NoneObj]
       /\ pc' = [pc EXCEPT ![p] = "loop"]

\* robot.get_reply(msg) called directly
CallGetReply(p, msg) ==
    /\ pc[p] = "idle"
    /\ GetReplyBegin(p, msg)
    /\ log' = [log EXCEPT ![p] = <<>>]
    /\ verified' = [verified EXCEPT ![p] = FALSE]
    /\ crypt' = [crypt EXCEPT ![p] = <<>>]
    /\ request' = [request EXCEPT ![p] = NoneObj]
    /\ response' = [response EXCEPT ![p] = NoneObj]
    /\ UNCHANGED <<make_error_page, use_encryption, crypto_cached,
                   storage, regResult>>
    /\ UNCHANGED clientVars

(* Lines 427-435: one iteration of the for loop, with the except clause. An *)
(* exception of the handler or of process_function_reply is logged and ends *)
(* get_reply with None; one that the clause did not catch would leave       *)
(* get_reply and reach the caller.                                          *)
HandlerStep(p) ==
    /\ pc[p] = "loop"
    /\ idx[p] <= Len(hlist[p])
    /\ LET e    == hlist[p][idx[p]]
           args == handler_args(message[p], session[p], e[2])
           out  == Invoke(e[1], args)
           sess == IF Len(args) = 2 THEN out.session ELSE session[p]
           r    == function_reply(out.ret, message[p])
           exc  == IF out.raised THEN "handler"
                   ELSE IF EndsDispatch(out.ret) /\ r.t \in ReplyErrors THEN r.t
                   ELSE "none"
       IN /\ calls' = [calls EXCEPT ![p] =
                          Append(@, [func |-> e[1], args |-> args,
                                     out |-> IF out.raised THEN "raise" ELSE out.ret,
                                     inner |-> out.inner])]
          /\ IF out.raised
             THEN UNCHANGED <<session, storage, writes>>
             ELSE /\ session' = [session EXCEPT ![p] = sess]
                  /\ IF WritesSession(ss[p], id[p])
                     THEN /\ storage' = [storage EXCEPT ![id[p]] = sess]
                          /\ writes' = [writes EXCEPT ![p] = @ + 1]
                     ELSE UNCHANGED <<storage, writes>>
          /\ IF exc # "none"
             THEN IF Caught(exc)
                  THEN /\ log' = [log EXCEPT ![p] = Append(@, "Catch an exception")]
                       /\ pc' = [pc EXCEPT ![p] = "replied"]
                       /\ UNCHANGED <<idx, reply, response>>
                  ELSE /\ response' = [response EXCEPT ![p] = Resp(500, EmptyBody, exc)]
                       /\ pc' = [pc EXCEPT ![p] = "idle"]
                       /\ UNCHANGED <<idx, reply, log>>
             ELSE IF EndsDispatch(out.ret)
                  THEN /\ reply' = [reply EXCEPT ![p] = r]
                       /\ pc' = [pc EXCEPT ![p] = "replied"]
                       /\ UNCHANGED <<idx, log, response>>
                  ELSE /\ idx' = [idx EXCEPT ![p] = @ + 1]
                       /\ UNCHANGED <<pc, reply, log, response>>
    /\ UNCHANGED <<robotVars, regResult, request, message, ss, id, hlist,
                   reads, verified, crypt>>
    /\ UNCHANGED clientVars

\* the for loop ends with no handler left: get_reply returns None
LoopExit(p) ==
    /\ pc[p] = "loop"
    /\ idx[p] > Len(hlist[p])
    /\ pc' = [pc EXCEPT ![p] = "replied"]
    /\ UNCHANGED <<robotVars, storage, regResult, request, localVars, response,
                   histVars>>
    /\ UNCHANGED clientVars

\* the direct caller of get_reply takes the result
Return(p) ==
    /\ pc[p] = "replied"
    /\ request[p] = NoneObj
    /\ pc' = [pc EXCEPT ![p] = "idle"]
    /\ UNCHANGED <<robotVars, storage, regResult, request, localVars, response,
                   histVars>>
    /\ UNCHANGED clientVars

----------------------------------------------------------------------------
(* Registration *)

RegCall(via, func, type, result) ==
    [via |-> via, func |-> func, type |-> type, result |-> result]

\* robot.add_handler(func, type)
AddHandler(func, type) ==
    /\ TotalEntries(handlers) < MaxHandlers
    /\ LET r == add_handler(handlers, func, type)
       IN /\ handlers' = r.handlers
          /\ regResult' = RegCall("add_handler", func, type, r.result)
    /\ UNCHANGED <<make_error_page, config, use_encryption, crypto_cached, storage,
                   pc, request, localVars, response, histVars>>
    /\ UNCHANGED clientVars

----------------------------------------------------------------------------
(* The robot after __init__, with its workers idle *)

\* token_expires_at: None, or a time in seconds
NoTime == <<>>
At(t) == <<t>>

\* Client.__init__ (client.py 32-35)
NewClient == [token |-> NoneVal, token_expires_at |-> NoTime]

InitRobot ==
    /\ client = NewClient
    /\ clock = 0
    /\ handlers = [k \in HandlerKeys |-> <<>>]
    /\ make_error_page = "make_error_page"
    /\ use_encryption = "unset"
    /\ crypto_cached = FALSE
    /\ storage = [i \in Ids |-> EmptySession]
    /\ regResult = NoneObj

InitWorkers(active) ==
    /\ pc = [p \in Procs |-> IF p \in active THEN "idle" ELSE "off"]
    /\ request = [p \in Procs |-> NoneObj]
    /\ message = [p \in Procs |-> NoneObj]
    /\ ss = [p \in Procs |-> FALSE]
    /\ id = [p \in Procs |-> NoId]
    /\ session = [p \in Procs |-> NoneObj]
    /\ hlist = [p \in Procs |-> <<>>]
    /\ idx = [p \in Procs |-> 1]
    /\ reply = [p \in Procs |-> NoneObj]
    /\ response = [p \in Procs |-> NoneObj]
    /\ calls = [p \in Procs |-> <<>>]
    /\ reads = [p \in Procs |-> 0]
    /\ writes = [p \in Procs |-> 0]
    /\ verified = [p \in Procs |-> FALSE]
    /\ crypt = [p \in Procs |-> <<>>]
    /\ log = [p \in Procs |-> <<>>]

Config(tok, key, st) == [TOKEN |-> tok, ENCODING_AES_KEY |-> key, SESSION_STORAGE |-> st]

(* Dispatch: one worker calls get_reply on text and click messages while    *)
(* handlers are registered for text messages and for all messages.          *)
DispatchTypes == {"text", "all"}
DispatchMessages == {Msg("text", "u1"), Msg("click_event", "u1")}

Init ==
    /\ InitRobot
    /\ config \in {Config("tok", "None", st) : st \in {"None", "False"}}
    /\ InitWorkers({"w1"})

\* no worker is inside the view or get_reply
Quiet == \A p \in Procs : pc[p] \in {"idle", "off"}

Next ==
    \/ \E f \in Funcs, t \in DispatchTypes : Quiet /\ AddHandler(f, t)
    \/ \E p \in Procs, m \in DispatchMessages : CallGetReply(p, m)
    \/ \E p \in Procs : HandlerStep(p)
    \/ \E p \in Procs : LoopExit(p)
    \/ \E p \in Procs : Return(p)

Spec == Init /\ [][Next]_vars

----------------------------------------------------------------------------
(* Properties of the dispatch *)

InDispatch(p) == pc[p] \in {"loop", "replied"}
Returned(p) == pc[p] = "replied"
TypeList(t) == IF t \in DOMAIN handlers THEN handlers[t] ELSE <<>>
Falsy(out) == out \in {NoneVal, ""}
NonEmpty(out) == out \notin {NoneVal, "", "raise"}

\* C1: the handlers a dispatch has invoked are, in order, the first handlers of
\* the list registered for the message's type followed by the catch-all list,
\* so no catch-all handler is invoked before a type-specific one
C1_InvocationOrder ==
    \A p \in Procs : InDispatch(p) =>
        LET T == TypeList(message[p].type)
            A == handlers["all"]
            n == Len(calls[p])
        IN /\ n <= Len(T) + Len(A)
           /\ \A i \in 1..n :
                 calls[p][i].func = IF i <= Len(T) THEN T[i][1] ELSE A[i - Len(T)][1]

C1_Witness ==
    \E p \in Procs :
        /\ Returned(p)
        /\ Len(TypeList(message[p].type)) = 2
        /\ Len(handlers["all"]) = 1
        /\ Len(calls[p]) = 3

\* C2: a handler that returns a non-empty value is the last one invoked in its
\* dispatch, every handler before it returned empty, and the reply of the
\* dispatch is built from that value; without such a handler there is no reply
C2_FirstNonEmptyWins ==
    \A p \in Procs : InDispatch(p) =>
        LET n == Len(calls[p])
        IN /\ \A i \in 1..n : NonEmpty(calls[p][i].out) =>
                 /\ i = n
                 /\ Returned(p)
                 /\ reply[p] = IF calls[p][i].out = "<object>" THEN NoneObj
                               ELSE [t |-> "TextReply", target |-> message[p].source,
                                     source |-> message[p].target,
                                     content |-> calls[p][i].out]
           /\ reply[p] # NoneObj => n > 0 /\ NonEmpty(calls[p][n].out)

C2_Witness ==
    \E p \in Procs :
        /\ Returned(p)
        /\ Len(calls[p]) = 2
        /\ Falsy(calls[p][1].out)
        /\ calls[p][2].out = "A"
        /\ reply[p].t = "TextReply" /\ reply[p].content = "A"
        /\ Len(TypeList(message[p].type)) = 2
        /\ handlers["all"] = << <<hB, 2>> >>

\* C3 (as claimed): after a handler raised, the dispatch goes on with the
\* handlers that remain, so it ends only when a handler replied or none is left
C3_ContinuesAfterException ==
    \A p \in Procs : Returned(p) =>
        \A i \in 1..Len(calls[p]) :
            calls[p][i].out = "raise" => (i = Len(hlist[p]) \/ Len(calls[p]) > i)

\* C4 (as claimed): a dispatch with a session storage and a message that has a
\* source reads the session once and has written it once when it returns
C4_ReadOnceWriteOnce ==
    \A p \in Procs :
        (Returned(p) /\ ss[p] /\ "source" \in DOMAIN message[p]) =>
            (reads[p] = 1 /\ writes[p] = 1)

\* C5: when a call of get_reply follows one for the same sender, the session
\* its handlers are given holds the mark of every handler of the earlier
\* dispatch that marked the session and returned empty
C5_SessionPersists ==
    [][\A p \in Procs :
          (/\ pc[p] = "idle" /\ pc'[p] = "loop"
           /\ ss[p] /\ ss'[p]
           /\ message[p] # NoneObj
           /\ message'[p].source = message[p].source)
          => \A i \in 1..Len(calls[p]) :
                (calls[p][i].func.mark /\ Falsy(calls[p][i].out))
                => /\ session'[p].t = "dict"
                   /\ calls[p][i].func.name \in session'[p].marks]_vars

\* a dispatch starts with the mark of hM in its session while hM is the only
\* handler ever registered: the dispatch that left the mark produced no reply
C5_Witness ==
    \E p \in Procs :
        /\ pc[p] = "loop" /\ calls[p] = <<>>
        /\ session[p] = Dict({"hM"})
        /\ TotalEntries(handlers) = 1

----------------------------------------------------------------------------
(* Signatures and the crypto engine *)

TS == "1359803261"
NONCE == "n0nce"
MsgBlob == "QmxvYg=="                \* cipher blob of a text message from u1
EchoBlob == "ZWNobw=="               \* cipher blob of the handshake's echo string
EchoBlobQuoted == "ZWNobw%3D%3D"     \* the same blob, percent-encoded
Absent == "<absent>"

\* the characters of the strings that are signed, as their ASCII codes
Chars(a) ==
    CASE a = "tok" -> <<116, 111, 107>>
      [] a = "guess" -> <<103, 117, 101, 115, 115>>
      [] a = "n0nce" -> <<110, 48, 110, 99, 101>>
      [] a = "1359803261" -> <<49, 51, 53, 57, 56, 48, 51, 50, 54, 49>>
      [] a = "QmxvYg==" -> <<81, 109, 120, 118, 89, 103, 61, 61>>
      [] a = "ZWNobw==" -> <<90, 87, 78, 111, 98, 119, 61, 61>>
      [] a = "ab" -> <<97, 98>>
      [] a = "ba" -> <<98, 97>>
      [] a = "aba" -> <<97, 98, 97>>
      [] a = "" -> <<>>

\* the order of Python strings: by the first character that differs, a
\* prefix before its extensions
RECURSIVE LexLeq(_, _)
LexLeq(a, b) ==
    IF a = <<>> THEN TRUE
    ELSE IF b = <<>> THEN FALSE
    ELSE IF Head(a) # Head(b) THEN Head(a) < Head(b)
    ELSE LexLeq(Tail(a), Tail(b))

RECURSIVE Insert(_, _)
Insert(a, s) ==
    IF s = <<>> THEN <<a>>
    ELSE IF LexLeq(a, Head(s)) THEN <<a>> \o s
    ELSE <<Head(s)>> \o Insert(a, Tail(s))

\* list.sort()
RECURSIVE Sorted(_)
Sorted(s) == IF s = <<>> THEN <<>> ELSE Insert(Head(s), Sorted(Tail(s)))

\* ''.join(sign)
RECURSIVE Join(_)
Join(s) == IF s = <<>> THEN <<>> ELSE Head(s) \o Join(Tail(s))

\* hashlib.sha1(...).hexdigest(): a digest that differs whenever its input does
sha1(bytes) == <<"sha1">> \o bytes

\* the digest of the sorted, concatenated items
signature_of(items) == sha1(Join(Sorted(items)))

\* utils.get_signature
get_signature(token, timestamp, nonce, extra) ==
    signature_of(<<Chars(token), Chars(timestamp), Chars(nonce), Chars(extra)>>)

\* utils.check_signature
check_signature(token, timestamp, nonce, extra, signature) ==
    signature = get_signature(token, timestamp, nonce, extra)

\* check_signature handing the timestamp over in the place of echostr
robot_check_signature_no_echostr(cfg, timestamp, nonce, echostr, signature) ==
    check_signature(cfg.TOKEN, timestamp, nonce, timestamp, signature)

\* BaseRoBot.check_signature (lines 455-467)
robot_check_signature(cfg, timestamp, nonce, echostr, signature) ==
    check_signature(cfg.TOKEN, timestamp, nonce, echostr, signature)

\* what a cipher blob holds
Plain(blob) ==
    IF blob = MsgBlob THEN [kind |-> "xml", msg |-> Msg("text", "u1")]
    ELSE [kind |-> "text", text |-> "echo"]

\* MessageCrypt.decrypt_message: the signature is verified first, the blob is
\* decoded and decrypted only after that
decrypt_message(cfg, timestamp, nonce, msg_signature, encrypt_msg) ==
    IF check_signature(cfg.TOKEN, timestamp, nonce, encrypt_msg, msg_signature)
    THEN [exc |-> "none", plain |-> Plain(encrypt_msg),
          ops |-> <<"decrypt_message", "aes_decrypt">>]
    ELSE [exc |-> "CryptoError", plain |-> NoneObj, ops |-> <<"decrypt_message">>]

\* the cached property crypto: without a key it raises, with a key it sets
\* use_encryption and is computed once
crypto_property(cfg, cached, use_enc) ==
    IF cached
    THEN [exc |-> "none", cached |-> TRUE, use_encryption |-> use_enc]
    ELSE IF cfg.ENCODING_AES_KEY = "None"
    THEN [exc |-> "ConfigError", cached |-> FALSE, use_encryption |-> use_enc]
    ELSE [exc |-> "none", cached |-> TRUE, use_encryption |-> "True"]

----------------------------------------------------------------------------
(* The bottle view *)


\* urllib.parse.unquote
unquote(s) == IF s = EchoBlobQuoted THEN EchoBlob ELSE s
\* html.escape
html_escape(u) == IF u = "/robot?a=1&b=2" THEN "/robot?a=1&amp;b=2" ELSE u
\* the page a producer makes for a url
Page(producer, u) == [kind |-> "error_page", producer |-> producer, url |-> u]

\* the GET branch that decrypts without checking the signature
werobot_view_get_unchecked(req, cfg, producer, cached, use_enc) ==
    LET echostr == unquote(req.echostr)
        c == crypto_property(cfg, cached, use_enc)
        d == decrypt_message(cfg, req.timestamp, req.nonce, req.msg_signature, echostr)
    IN [response |-> Resp(200, [kind |-> "plaintext", text |-> Plain(echostr)], "none"),
        verified |-> FALSE, ops |-> d.ops, cached |-> c.cached,
        use_encryption |-> c.use_encryption]

\* werobot_view, GET (bottle.py 44-59)
werobot_view_get(req, cfg, producer, cached, use_enc) ==
    LET echostr == unquote(req.echostr)
        ok == robot_check_signature(cfg, req.timestamp, req.nonce, echostr,
                                    req.msg_signature)
        c == crypto_property(cfg, cached, use_enc)
        d == decrypt_message(cfg, req.timestamp, req.nonce, req.msg_signature, echostr)
    IN IF ~ok
       THEN [response |-> Resp(403, Page(producer, html_escape(req.url)), "none"),
             verified |-> FALSE, ops |-> <<>>, cached |-> cached,
             use_encryption |-> use_enc]
       ELSE IF c.exc # "none"
       THEN [response |-> Resp(500, EmptyBody, c.exc),
             verified |-> TRUE, ops |-> <<>>, cached |-> c.cached,
             use_encryption |-> c.use_encryption]
       ELSE IF d.exc # "none"
       THEN [response |-> Resp(500, EmptyBody, d.exc),
             verified |-> TRUE, ops |-> d.ops, cached |-> c.cached,
             use_encryption |-> c.use_encryption]
       ELSE [response |-> Resp(200, [kind |-> "plaintext", text |-> d.plain], "none"),
             verified |-> TRUE, ops |-> d.ops, cached |-> c.cached,
             use_encryption |-> c.use_encryption]

(* Picture events. The mapping of fields that the body parses to holds,    *)
(* under SendPicsInfo, the count as text and under PicList.item one mapping *)
(* for one picture or a list of mappings for several.                       *)
MaxPics == 2

Hashes == {"md5a", "md5b"}
Pic(h) == [PicMd5Sum |-> h]
PicEvents == {"pic_sysphoto", "pic_photo_or_album", "pic_weixin"}
Digits == <<"1", "2", "3", "4", "5", "6", "7", "8", "9">>

\* IntEntry: int() of the text of the field
ToInt(text) == CHOOSE n \in 1..Len(Digits) : Digits[n] = text

PicMapping(ev, items) ==
    [MsgType |-> "event", Event |-> ev, FromUserName |-> "u1", ToUserName |-> "acct",
     EventKey |-> "album",
     SendPicsInfo |->
        [Count |-> Digits[Len(items)],
         PicList |-> [item |-> IF Len(items) = 1 THEN items[1] ELSE items]]]

\* dict.pop(key): the mapping without the key
Pop(d, key) == [k \in DOMAIN d \ {key} |-> d[k]]

\* BasePicEvent.__init__ reading only the first picture of a list
BasePicEvent_init_first(msg) ==
    LET item == msg.SendPicsInfo.PicList.item
    IN IF "item" \notin DOMAIN msg.SendPicsInfo.PicList
       THEN [exc |-> "KeyError", pic_list |-> <<>>, message |-> msg]
       ELSE [exc |-> "none",
             pic_list |-> IF ToInt(msg.SendPicsInfo.Count) > 1
                          THEN <<[pic_md5_sum |-> item[1].PicMd5Sum]>>
                          ELSE <<[pic_md5_sum |-> item.PicMd5Sum]>>,
             message |-> [msg EXCEPT !.SendPicsInfo.PicList = Pop(@, "item")]]

\* BasePicEvent.__init__ (lines 59-71): the pic_list of the event, and the
\* mapping as pop('item') leaves it; pop raises KeyError when item is missing
BasePicEvent_init(msg) ==
    LET count == ToInt(msg.SendPicsInfo.Count)
        item  == msg.SendPicsInfo.PicList.item
    IN IF "item" \notin DOMAIN msg.SendPicsInfo.PicList
       THEN [exc |-> "KeyError", pic_list |-> <<>>, message |-> msg]
       ELSE [exc |-> "none",
             pic_list |-> IF count > 1
                          THEN [i \in 1..Len(item) |-> [pic_md5_sum |-> item[i].PicMd5Sum]]
                          ELSE <<[pic_md5_sum |-> item.PicMd5Sum]>>,
             message |-> [msg EXCEPT !.SendPicsInfo.PicList = Pop(@, "item")]]

\* the __type__ of the class of an event
EventType(ev) ==
    CASE ev = "pic_sysphoto" -> "pic_sysphoto_event"
      [] ev = "pic_photo_or_album" -> "pic_photo_or_album_event"
      [] ev = "pic_weixin" -> "pic_weixin_event"

\* parser.process_message: the event object of a mapping that reports
\* pictures; any other message of the model is given in its parsed form.
\* __dict__.update(message) of line 20 gives the event the nested mapping
\* SendPicsInfo itself, the object that __init__ then pops item from
process_message(m) ==
    IF "SendPicsInfo" \in DOMAIN m
    THEN [type |-> EventType(m.Event), source |-> m.FromUserName,
          target |-> m.ToUserName, key |-> m.EventKey,
          count |-> ToInt(m.SendPicsInfo.Count),
          pic_list |-> BasePicEvent_init(m).pic_list,
          SendPicsInfo |-> BasePicEvent_init(m).message.SendPicsInfo]
    ELSE m

\* parse_message going on with the blob's content after a failed decryption
parse_message_unverified(cfg, cached, use_enc, body, timestamp, nonce, msg_signature) ==
    LET c == crypto_property(cfg, cached, use_enc)
    IN IF body.Encrypt = Absent
       THEN [exc |-> "none", message |-> process_message(body.msg),
             verified |-> FALSE, ops |-> <<>>,
             cached |-> cached, use_encryption |-> use_enc]
       ELSE IF c.exc # "none"
       THEN [exc |-> c.exc, message |-> NoneObj, verified |-> FALSE, ops |-> <<>>,
             cached |-> c.cached, use_encryption |-> c.use_encryption]
       ELSE [exc |-> "none", message |-> process_message(Plain(body.Encrypt).msg),
             verified |-> FALSE, ops |-> <<"decrypt_message", "aes_decrypt">>,
             cached |-> c.cached, use_encryption |-> c.use_encryption]

\* BaseRoBot.parse_message: a body with an Encrypt field is decrypted first
parse_message(cfg, cached, use_enc, body, timestamp, nonce, msg_signature) ==
    LET c == crypto_property(cfg, cached, use_enc)
        d == decrypt_message(cfg, timestamp, nonce, msg_signature, body.Encrypt)
    IN IF body.Encrypt = Absent
       THEN [exc |-> "none", message |-> process_message(body.msg),
             verified |-> FALSE, ops |-> <<>>,
             cached |-> cached, use_encryption |-> use_enc]
       ELSE IF c.exc # "none"
       THEN [exc |-> c.exc, message |-> NoneObj, verified |-> FALSE, ops |-> <<>>,
             cached |-> c.cached, use_encryption |-> c.use_encryption]
       ELSE IF d.exc # "none"
       THEN [exc |-> d.exc, message |-> NoneObj, verified |-> FALSE, ops |-> d.ops,
             cached |-> c.cached, use_encryption |-> c.use_encryption]
       ELSE [exc |-> "none", message |-> process_message(d.plain.msg),
             verified |-> TRUE, ops |-> d.ops,
             cached |-> c.cached, use_encryption |-> c.use_encryption]

\* get_encrypted_reply with the test of use_encryption before the test of reply
get_encrypted_reply_encrypt_first(rep, use_enc) ==
    IF use_enc = "unset"
    THEN [response |-> Resp(500, EmptyBody, "AttributeError"), ops |-> <<>>, log |-> <<>>]
    ELSE IF use_enc = "True"
    THEN [response |-> Resp(200, [kind |-> "envelope", reply |-> rep], "none"),
          ops |-> <<"encrypt_message">>, log |-> <<>>]
    ELSE [response |-> Resp(200, EmptyBody, "none"), ops |-> <<>>, log |-> <<>>]

\* BaseRoBot.get_encrypted_reply after its call of get_reply (lines 447-453);
\* reading the attribute use_encryption while it is absent raises
get_encrypted_reply(rep, use_enc) ==
    IF rep = NoneObj
    THEN [response |-> Resp(200, EmptyBody, "none"), ops |-> <<>>,
          log |-> <<"No handler responded message">>]
    ELSE IF use_enc = "unset"
    THEN [response |-> Resp(500, EmptyBody, "AttributeError"), ops |-> <<>>, log |-> <<>>]
    ELSE IF use_enc = "True"
    THEN [response |-> Resp(200, [kind |-> "envelope", reply |-> rep], "none"),
          ops |-> <<"encrypt_message">>, log |-> <<>>]
    ELSE [response |-> Resp(200, [kind |-> "rendered", reply |-> rep], "none"),
          ops |-> <<>>, log |-> <<>>]

\* a GET request is served; the locals of an earlier call are gone
ViewGet(p, req) ==
    /\ pc[p] = "idle"
    /\ req.method = "GET"
    /\ LET r == werobot_view_get(req, config, make_error_page, crypto_cached,
                                 use_encryption)
       IN /\ request' = [request EXCEPT ![p] = req]
          /\ response' = [response EXCEPT ![p] = r.response]
          /\ verified' = [verified EXCEPT ![p] = r.verified]
          /\ crypt' = [crypt EXCEPT ![p] = r.ops]
          /\ crypto_cached' = r.cached
          /\ use_encryption' = r.use_encryption
    /\ message' = [message EXCEPT ![p] = NoneObj]
    /\ ss' = [ss EXCEPT ![p] = FALSE]
    /\ id' = [id EXCEPT ![p] = NoId]
    /\ session' = [session EXCEPT ![p] = NoneObj]
    /\ hlist' = [hlist EXCEPT ![p] = <<>>]
    /\ idx' = [idx EXCEPT ![p] = 1]
    /\ reply' = [reply EXCEPT ![p] = NoneObj]
    /\ calls' = [calls EXCEPT ![p] = <<>>]
    /\ reads' = [reads EXCEPT ![p] = 0]
    /\ writes' = [writes EXCEPT ![p] = 0]
    /\ log' = [log EXCEPT ![p] = <<>>]
    /\ UNCHANGED <<handlers, make_error_page, config, storage, regResult, pc>>
    /\ UNCHANGED clientVars

\* a POST request is served up to the first lines of get_reply (bottle.py
\* 61-69, robot.py 446 and 417-425); an exception of parse_message ends it
ViewPost(p, req) ==
    /\ pc[p] = "idle"
    /\ req.method = "POST"
    /\ LET r == parse_message(config, crypto_cached, use_encryption, req.body,
                              req.timestamp, req.nonce, req.msg_signature)
       IN /\ request' = [request EXCEPT ![p] = req]
          /\ verified' = [verified EXCEPT ![p] = r.verified]
          /\ crypt' = [crypt EXCEPT ![p] = r.ops]
          /\ crypto_cached' = r.cached
          /\ use_encryption' = r.use_encryption
          /\ log' = [log EXCEPT ![p] = <<>>]
          /\ IF r.exc = "none"
             THEN /\ GetReplyBegin(p, r.message)
                  /\ response' = [response EXCEPT ![p] = NoneObj]
             ELSE /\ response' = [response EXCEPT ![p] = Resp(500, EmptyBody, r.exc)]
                  /\ message' = [message EXCEPT ![p] = NoneObj]
                  /\ ss' = [ss EXCEPT ![p] = FALSE]
                  /\ id' = [id EXCEPT ![p] = NoId]
                  /\ session' = [session EXCEPT ![p] = NoneObj]
                  /\ hlist' = [hlist EXCEPT ![p] = <<>>]
                  /\ idx' = [idx EXCEPT ![p] = 1]
                  /\ reply' = [reply EXCEPT ![p] = NoneObj]
                  /\ calls' = [calls EXCEPT ![p] = <<>>]
                  /\ reads' = [reads EXCEPT ![p] = 0]
                  /\ writes' = [writes EXCEPT ![p] = 0]
                  /\ UNCHANGED <<config, pc, handlers>>
    /\ UNCHANGED <<make_error_page, storage, regResult>>
    /\ UNCHANGED clientVars

\* get_encrypted_reply takes the result of get_reply and the view returns
EncryptedReply(p) ==
    /\ pc[p] = "replied"
    /\ request[p] # NoneObj
    /\ LET r == get_encrypted_reply(reply[p], use_encryption)
       IN /\ response' = [response EXCEPT ![p] = r.response]
          /\ crypt' = [crypt EXCEPT ![p] = @ \o r.ops]
          /\ log' = [log EXCEPT ![p] = @ \o r.log]
    /\ pc' = [pc EXCEPT ![p] = "idle"]
    /\ UNCHANGED <<robotVars, storage, regResult, request, localVars, calls, reads,
                   writes, verified>>
    /\ UNCHANGED clientVars

\* robot.error_page(f)
ErrorPage(f) ==
    /\ make_error_page' = f
    /\ UNCHANGED <<handlers, config, use_encryption, crypto_cached, storage,
                   regResult, pc, request, localVars, response, histVars>>
    /\ UNCHANGED clientVars

(* The view: one worker serves GET and POST requests with good and forged    *)
(* signatures, with plain and encrypted bodies, with and without a key.      *)
Req(m, u, sig, e, b) ==
    [method |-> m, url |-> u, timestamp |-> TS, nonce |-> NONCE,
     msg_signature |-> sig, echostr |-> e, body |-> b]
Forged(extra) == get_signature("guess", TS, NONCE, extra)
Genuine(extra) == get_signature("tok", TS, NONCE, extra)
PlainBody == [Encrypt |-> Absent, msg |-> Msg("text", "u1")]
EncryptedBody == [Encrypt |-> MsgBlob, msg |-> NoneObj]
NoBody == [Encrypt |-> Absent, msg |-> NoneObj]

GetRequests ==
    {Req("GET", u, sig, e, NoBody) :
        u \in {"/robot", "/robot?a=1&b=2"},
        sig \in {Genuine(EchoBlob), Forged(EchoBlob)},
        e \in {EchoBlob, EchoBlobQuoted}}
\* an encrypted body comes with a good or a forged signature, a plain body with
\* a forged one or with none
PostRequests ==
    {Req("POST", "/robot", sig, "", EncryptedBody) :
        sig \in {Genuine(MsgBlob), Forged(MsgBlob)}}
    \cup {Req("POST", "/robot", sig, "", PlainBody) : sig \in {<<>>, Forged(MsgBlob)}}
Producers == {"make_error_page", "custom_page"}
ViewFuncs == {hM, hA}

InitView ==
    /\ InitRobot
    /\ config \in {Config("tok", key, "None") : key \in {"None", "aeskey"}}
    /\ InitWorkers({"w1"})

NextView ==
    \/ \E f \in ViewFuncs : Quiet /\ AddHandler(f, "text")
    \/ \E f \in Producers : Quiet /\ ErrorPage(f)
    \/ \E p \in Procs, req \in GetRequests : ViewGet(p, req)
    \/ \E p \in Procs, req \in PostRequests : ViewPost(p, req)
    \/ \E p \in Procs : HandlerStep(p)
    \/ \E p \in Procs : LoopExit(p)
    \/ \E p \in Procs : EncryptedReply(p)

SpecView == InitView /\ [][NextView]_vars

----------------------------------------------------------------------------
(* The registration shortcuts *)

\* registrations accepted by the model where every shortcut is exercised
MaxShortcutCalls == 2

(* Each decorator of BaseRoBot with the type it passes to add_handler, and   *)
(* the type tag of the message or event variant it is documented for.        *)
Sc(n, t, g) == [name |-> n, type |-> t, tag |-> g]
Shortcuts == {
    Sc("handler", "all", "all"),
    Sc("text", "text", "text"),
    Sc("image", "image", "image"),
    Sc("location", "location", "location"),
    Sc("link", "link", "link"),
    Sc("voice", "voice", "voice"),
    Sc("video", "video", "video"),
    Sc("unknown", "unknown", "unknown"),
    Sc("subscribe", "subscribe_event", "subscribe_event"),
    Sc("unsubscribe", "unsubscribe_event", "unsubscribe_event"),
    Sc("click", "click_event", "click_event"),
    Sc("scancode_push", "scancode_push_event", "scancode_push_event"),
    Sc("scancode_waitmsg", "scancode_waitmsg_event", "scancode_waitmsg_event"),
    Sc("pic_sysphoto", "pic_sysphoto_event", "pic_sysphoto_event"),
    Sc("pic_photo_or_album", "pic_photo_or_album_event", "pic_photo_or_album_event"),
    Sc("pic_weixin", "pic_weixin_event", "pic_weixin_event"),
    Sc("location_select", "location_select_event", "location_select_event"),
    Sc("location_event", "location_event", "location_event"),
    Sc("view", "view_event", "view_event"),
    Sc("unknown_event", "unknown_event", "unknown_event") }

\* the __type__ tags of the event classes and the tags of the message classes
EventTags == {
    "subscribe_event", "unsubscribe_event", "scan_event", "scancode_push_event",
    "scancode_waitmsg_event", "pic_sysphoto_event", "pic_photo_or_album_event",
    "pic_weixin_event", "location_select_event", "click_event", "view_event",
    "location_event", "templatesendjobfinish_event", "unknown_event" }
MessageTags == {"text", "image", "link", "location", "voice", "video", "unknown"}

\* a decorator is applied to f: robot.<shortcut>(f)
Shortcut(sc, f) ==
    /\ TotalEntries(handlers) < MaxShortcutCalls
    /\ LET r == add_handler(handlers, f, sc.type)
       IN /\ handlers' = r.handlers
          /\ regResult' = RegCall(sc.name, f, sc.type, r.result)
    /\ UNCHANGED <<make_error_page, config, use_encryption, crypto_cached, storage,
                   pc, request, localVars, response, histVars>>
    /\ UNCHANGED clientVars

RegFuncs == {hA}
RegMessages == {Msg(t, "u1") : t \in EventTags \cup MessageTags}

InitReg ==
    /\ InitRobot
    /\ config = Config("tok", "None", "None")
    /\ InitWorkers({"w1"})

NextReg ==
    \/ \E sc \in Shortcuts, f \in RegFuncs : Quiet /\ Shortcut(sc, f)
    \/ \E p \in Procs, m \in RegMessages : CallGetReply(p, m)
    \/ \E p \in Procs : HandlerStep(p)
    \/ \E p \in Procs : LoopExit(p)
    \/ \E p \in Procs : Return(p)

SpecReg == InitReg /\ [][NextReg]_vars

\* C10 (as claimed): a registration of a callable through a shortcut ends
\* without an exception and leaves (handler, arity) last in the list that
\* get_handlers consults for a message carrying the tag of the shortcut's
\* variant (the catch-all list for the shortcut handler)
C10_ShortcutRegisters ==
    (regResult # NoneObj /\ callable(regResult.func)) =>
        LET tag == (CHOOSE sc \in Shortcuts : sc.name = regResult.via).tag
            L == TypeList(tag)
        IN /\ regResult.result = "ok"
           /\ Len(L) > 0
           /\ L[Len(L)] = <<regResult.func, argc_of(regResult.func)>>

----------------------------------------------------------------------------
(* Properties of the view *)

IsPost(p) == request[p] # NoneObj /\ request[p].method = "POST"

\* C6 (as claimed): a handler is invoked for a POST request only after a
\* signature check of that request succeeded
C6_AuthenticatedBeforeDispatch ==
    \A p \in Procs : (IsPost(p) /\ Len(calls[p]) > 0) => verified[p]

C8_ReplyEncryptedOrRendered ==
    \A p \in Procs :
        (IsPost(p) /\ response[p] # NoneObj /\ reply[p] # NoneObj) =>
            response[p] =
                IF use_encryption = "True"
                THEN Resp(200, [kind |-> "envelope", reply |-> reply[p]], "none")
                ELSE Resp(200, [kind |-> "rendered", reply |-> reply[p]], "none")

\* C9: a POST whose dispatch gave no reply is answered with an empty body and
\* encrypt_message is not called for it
C9_NoReplyEmptyBody ==
    \A p \in Procs :
        (IsPost(p) /\ response[p] # NoneObj /\ message[p] # NoneObj
                   /\ reply[p] = NoneObj) =>
            /\ response[p] = Resp(200, EmptyBody, "none")
            /\ "encrypt_message" \notin Range(crypt[p])

C9_Witness ==
    \E p \in Procs :
        /\ IsPost(p)
        /\ use_encryption = "True"
        /\ Len(calls[p]) > 0
        /\ reply[p] = NoneObj
        /\ response[p] = Resp(200, EmptyBody, "none")

----------------------------------------------------------------------------
(* add_handler with any value *)

(* One worker dispatches text messages while add_handler is called with     *)
(* functions of zero to three parameters and with a value that is not       *)
(* callable.                                                                 *)
AddFuncs == {hE, hA, hM, h3, NotCallable}

NextAdd ==
    \/ \E f \in AddFuncs, t \in DispatchTypes : Quiet /\ AddHandler(f, t)
    \/ \E p \in Procs : CallGetReply(p, Msg("text", "u1"))
    \/ \E p \in Procs : HandlerStep(p)
    \/ \E p \in Procs : LoopExit(p)
    \/ \E p \in Procs : Return(p)

SpecAdd == Init /\ [][NextAdd]_vars

\* C11: a call of add_handler with a value that is not callable ends with an
\* error and leaves every list of the registry as it was
C11_NonCallableRejected ==
    [][(/\ regResult' # regResult
        /\ regResult'.via = "add_handler"
        /\ ~callable(regResult'.func))
       => (regResult'.result = "ValueError" /\ handlers' = handlers)]_vars

C11_Witness ==
    /\ regResult # NoneObj
    /\ regResult.func = NotCallable
    /\ regResult.result = "ValueError"
    /\ TotalEntries(handlers) = 2

\* C12 (as claimed): every entry of the registry has an arity of 0, 1 or 2, and
\* a dispatch calls each handler with as many arguments as its arity, the
\* message first
C12_ArityAndArguments ==
    /\ \A k \in DOMAIN handlers : \A i \in 1..Len(handlers[k]) :
          handlers[k][i][2] \in 0..2
    /\ \A p \in Procs : InDispatch(p) =>
          \A i \in 1..Len(calls[p]) :
             /\ Len(calls[p][i].args) = hlist[p][i][2]
             /\ Len(calls[p][i].args) >= 1 => calls[p][i].args[1] = message[p]

----------------------------------------------------------------------------
(* add_filter and key_click *)

MaxFilters == 2

TextMsg(s, c) == [type |-> "text", source |-> s, target |-> "acct", content |-> c]
ClickMsg(s, k) == [type |-> "click_event", source |-> s, target |-> "acct", key |-> k]

Failed(h, exc) == [handlers |-> h, result |-> exc]

RECURSIVE add_filter(_, _, _)
RECURSIVE add_filter_rules(_, _, _)

\* the for loop of add_filter leaving after the first rule
add_filter_rules_first(h, func, rules) == add_filter(h, func, <<Head(rules)>>)

\* lines 365-367: for x in rules: self.add_filter(func, [x]); an exception
\* of one call ends the loop
add_filter_rules(h, func, rules) ==
    IF rules = <<>>
    THEN [handlers |-> h, result |-> "ok"]
    ELSE LET r == add_filter(h, func, <<Head(rules)>>)
         IN IF r.result # "ok" THEN r
            ELSE add_filter_rules(r.handlers, func, Tail(rules))

\* BaseRoBot.add_filter with a list of rules
add_filter(h, func, rules) ==
    IF ~callable(func) THEN Failed(h, "ValueError")
    ELSE IF Len(rules) > 1 THEN add_filter_rules(h, func, rules)
    ELSE IF Len(rules) = 0 THEN Failed(h, "IndexError")
    ELSE IF is_string(rules[1]) \/ is_regex(rules[1])
         THEN add_handler(h, FilterAdapter(func, rules[1]), "text")
         ELSE Failed(h, "TypeError")

\* BaseRoBot.key_click(key)(f): signature(f) raises for a value that is not
\* callable
key_click(h, key, f) ==
    IF ~callable(f) THEN Failed(h, "TypeError")
    ELSE add_handler(h, KeyAdapter(f, key), "click_event")

\* robot.add_filter(func, rules), also reached by the decorator robot.filter
AddFilter(func, rules) ==
    /\ TotalEntries(handlers) + Len(rules) <= MaxFilters
    /\ LET r == add_filter(handlers, func, rules)
       IN /\ handlers' = r.handlers
          /\ regResult' = [via |-> "add_filter", func |-> func, type |-> "text",
                           result |-> r.result, rules |-> rules]
    /\ UNCHANGED <<make_error_page, config, use_encryption, crypto_cached, storage,
                   pc, request, localVars, response, histVars>>
    /\ UNCHANGED clientVars

\* robot.key_click(key)(f)
KeyClick(key, f) ==
    /\ TotalEntries(handlers) < MaxFilters
    /\ LET r == key_click(handlers, key, f)
       IN /\ handlers' = r.handlers
          /\ regResult' = [via |-> "key_click", func |-> f, type |-> "click_event",
                           result |-> r.result, key |-> key]
    /\ UNCHANGED <<make_error_page, config, use_encryption, crypto_cached, storage,
                   pc, request, localVars, response, histVars>>
    /\ UNCHANGED clientVars

(* One worker dispatches text messages while filters are registered, or     *)
(* click events while key handlers are registered.                          *)
FilterFuncs == {hA, h2, h3}
KeyFuncs == {hE, h2}
Rules == {StrRule(Hi), StrRule(HiYou), Pattern(Hi)}
RuleLists ==
    {<<>>} \cup {<<r>> : r \in Rules \cup {BadRule}}
           \cup {<<Pattern(Hi), StrRule(HiYou)>>, <<StrRule(Hi), BadRule>>,
                 <<BadRule, StrRule(Hi)>>}
Keys == {"K1", "K2"}
FilterMessages == {TextMsg("u1", c) : c \in {Hi, HiYou, OhHi}}
KeyMessages == {ClickMsg("u1", k) : k \in Keys}

NextFilter ==
    \/ \E f \in FilterFuncs, rs \in RuleLists : Quiet /\ AddFilter(f, rs)
    \/ \E p \in Procs, m \in FilterMessages : CallGetReply(p, m)
    \/ \E p \in Procs : HandlerStep(p)
    \/ \E p \in Procs : LoopExit(p)
    \/ \E p \in Procs : Return(p)

SpecFilter == InitReg /\ [][NextFilter]_vars

NextKey ==
    \/ \E k \in Keys, f \in KeyFuncs : Quiet /\ KeyClick(k, f)
    \/ \E p \in Procs, m \in KeyMessages : CallGetReply(p, m)
    \/ \E p \in Procs : HandlerStep(p)
    \/ \E p \in Procs : LoopExit(p)
    \/ \E p \in Procs : Return(p)

SpecKey == InitReg /\ [][NextKey]_vars

\* the dispatch went on after its i-th call: to the next handler, or to the
\* end of the list
Continued(p, i) == Len(calls[p]) > i \/ idx[p] = i + 1

\* C13: the function of a filter with a string rule is called for a text
\* message exactly when the content of the message equals the rule; otherwise
\* the adapter returns None and the dispatch goes on to the next handler
C13_ExactRule ==
    \A p \in Procs : InDispatch(p) =>
       \A i \in 1..Len(calls[p]) :
          LET c == calls[p][i]
          IN ("rule" \in DOMAIN c.func /\ c.func.rule.kind = "str") =>
                /\ (c.inner # NoneObj) <=> (message[p].content = c.func.rule.v)
                /\ c.inner = NoneObj => (c.out = NoneVal /\ Continued(p, i))

C13_Witness ==
    /\ InDispatch("w1")
    /\ Len(calls["w1"]) = 2
    /\ message["w1"] = TextMsg("u1", HiYou)
    /\ calls["w1"][1].func = FilterAdapter(hA, StrRule(Hi))
    /\ calls["w1"][1].inner = NoneObj
    /\ calls["w1"][2].func = FilterAdapter(hA, StrRule(HiYou))
    /\ calls["w1"][2].inner = Inner(hA, <<message["w1"]>>)

\* C14: the function of a filter with a pattern rule is called only when the
\* pattern matches the content at its start; the function receives the first
\* argc elements of (message, session, match object), and for a string rule
\* the third element is None
C14_FilterArguments ==
    \A p \in Procs : InDispatch(p) =>
       \A i \in 1..Len(calls[p]) :
          LET c     == calls[p][i]
              text  == message[p].content
              pat   == c.func.rule.v
              third == IF c.func.rule.kind = "regex"
                       THEN [t |-> "Match", re |-> pat, string |-> text,
                             span |-> <<0, Len(pat)>>]
                       ELSE NoneObj
          IN ("rule" \in DOMAIN c.func /\ c.inner # NoneObj) =>
                /\ c.func.rule.kind = "regex" =>
                      (Len(pat) <= Len(text) /\ SubSeq(text, 1, Len(pat)) = pat)
                /\ c.inner.func = c.func.wraps
                /\ c.inner.args =
                      SubSeq(<<message[p], c.args[2], third>>, 1, c.func.wraps.params)

C14_Witness ==
    /\ InDispatch("w1")
    /\ Len(calls["w1"]) = 2
    /\ message["w1"] = TextMsg("u1", HiYou)
    /\ calls["w1"][1].func = FilterAdapter(h2, StrRule(Hi))
    /\ calls["w1"][2].func = FilterAdapter(h3, Pattern(Hi))
    /\ calls["w1"][2].inner # NoneObj
    /\ Len(calls["w1"][2].inner.args) = 3
    /\ calls["w1"][2].inner.args[3].t = "Match"

\* the first rule of a list that is neither a string nor a pattern, or the
\* length of the list plus one
RECURSIVE FirstBad(_)
FirstBad(rules) ==
    IF rules = <<>> \/ Head(rules).kind \notin {"str", "regex"} THEN 1
    ELSE 1 + FirstBad(Tail(rules))

\* C15: add_filter(f, [r1, ..., rn]) with n > 1 leaves the registry that the
\* calls add_filter(f, [r1]), ..., add_filter(f, [rn]) leave one after the
\* other: one adapter of f per rule, appended to the text list in the order
\* of the rules, up to the first rule that a call of its own rejects
C15_RulesOneByOne ==
    [][(/\ regResult' # NoneObj
        /\ regResult'.via = "add_filter"
        /\ (regResult' # regResult \/ handlers' # handlers)
        /\ Len(regResult'.rules) > 1)
       => LET f  == regResult'.func
              rs == regResult'.rules
              n  == FirstBad(rs) - 1
          IN /\ handlers' = [handlers EXCEPT !["text"] =
                   @ \o [i \in 1..n |-> <<FilterAdapter(f, rs[i]), 2>>]]
             /\ regResult'.result = IF n = Len(rs) THEN "ok" ELSE "TypeError"]_vars

C15_Witness ==
    /\ regResult # NoneObj
    /\ regResult.via = "add_filter"
    /\ regResult.rules = <<Pattern(Hi), StrRule(HiYou)>>
    /\ regResult.result = "ok"
    /\ Len(handlers["text"]) = 2
    /\ handlers["text"][2][1].rule = StrRule(HiYou)

\* C16: the function of key_click(K) is called for a click event exactly when
\* the key of the event equals K, with the first argc elements of
\* (message, session); for another key the adapter returns None and the
\* dispatch goes on to the next handler
C16_KeyClick ==
    \A p \in Procs : InDispatch(p) =>
       \A i \in 1..Len(calls[p]) :
          LET c == calls[p][i]
          IN "key" \in DOMAIN c.func =>
                /\ (c.inner # NoneObj) <=> (message[p].key = c.func.key)
                /\ c.inner # NoneObj =>
                      /\ c.inner.func = c.func.wraps
                      /\ c.inner.args =
                            SubSeq(<<message[p], c.args[2]>>, 1, c.func.wraps.params)
                /\ c.inner = NoneObj => (c.out = NoneVal /\ Continued(p, i))

C16_Witness ==
    /\ InDispatch("w1")
    /\ Len(calls["w1"]) = 2
    /\ message["w1"] = ClickMsg("u1", "K2")
    /\ calls["w1"][1].func = KeyAdapter(h2, "K1")
    /\ calls["w1"][1].inner = NoneObj
    /\ calls["w1"][2].func = KeyAdapter(hE, "K2")
    /\ calls["w1"][2].inner = Inner(hE, <<>>)

----------------------------------------------------------------------------
(* Replies *)

\* the value the last handler of the dispatch returned
LastOut(p) == calls[p][Len(calls[p])].out

\* C17: when a handler returns a non-empty string, get_reply returns a Text
\* reply whose target is the source of the message, whose source is the
\* target of the message and whose content is the string; rendered, it is the
\* text template carrying those values
C17_TextReply ==
    \A p \in Procs :
       (/\ Returned(p)
        /\ calls[p] # <<>>
        /\ NonEmpty(LastOut(p))
        /\ LastOut(p) # "<object>") =>
          /\ reply[p] = [t |-> "TextReply", target |-> message[p].source,
                         source |-> message[p].target, content |-> LastOut(p)]
          /\ Render(reply[p]) =
                << <<"ToUserName", CData(message[p].source)>>,
                   <<"FromUserName", CData(message[p].target)>>,
                   <<"CreateTime", ReplyTime>>,
                   <<"MsgType", CData("text")>>,
                   <<"Content", CData(LastOut(p))>>,
                   <<"FuncFlag", "0">> >>

C17_Witness ==
    /\ Returned("w1")
    /\ Len(calls["w1"]) = 2
    /\ LastOut("w1") = "A"
    /\ message["w1"] = Msg("text", "u1")
    /\ Render(reply["w1"])[1] = <<"ToUserName", CData("u1")>>
    /\ Render(reply["w1"])[2] = <<"FromUserName", CData("acct")>>

(* One worker serves POST requests while handlers are registered that       *)
(* return nothing, a string, or a value that is no reply.                   *)
ReplyFuncs == {hM, hA, hO}

NextReply ==
    \/ \E f \in ReplyFuncs : Quiet /\ AddHandler(f, "text")
    \/ \E p \in Procs, req \in PostRequests : ViewPost(p, req)
    \/ \E p \in Procs : HandlerStep(p)
    \/ \E p \in Procs : LoopExit(p)
    \/ \E p \in Procs : EncryptedReply(p)

SpecReply == InitView /\ [][NextReply]_vars

\* C18: when a handler returns a non-empty value that is no reply, the
\* failure is logged inside get_reply, get_reply returns None and the view
\* answers 200 with an empty body: the exception does not reach the caller
C18_BadReplyIsEmpty ==
    \A p \in Procs :
       (IsPost(p) /\ calls[p] # <<>> /\ LastOut(p) = "<object>") =>
          /\ reply[p] = NoneObj
          /\ "Catch an exception" \in Range(log[p])
          /\ pc[p] \in {"replied", "idle"}
          /\ pc[p] = "idle" => response[p] = Resp(200, EmptyBody, "none")

C18_Witness ==
    /\ IsPost("w1")
    /\ pc["w1"] = "idle"
    /\ Len(calls["w1"]) = 2
    /\ LastOut("w1") = "<object>"
    /\ response["w1"] = Resp(200, EmptyBody, "none")

----------------------------------------------------------------------------
(* Dispatch without a session *)

\* a message object that has no source attribute
NoSourceMsg(t) == [type |-> t, target |-> "acct"]

(* One worker dispatches messages with and without a source, with sessions  *)
(* enabled or disabled, to handlers of two parameters.                      *)
SessionFuncs == {hM, h2}
SessionMessages == {Msg("text", "u1"), NoSourceMsg("text")}

NextSession ==
    \/ \E f \in SessionFuncs, t \in DispatchTypes : Quiet /\ AddHandler(f, t)
    \/ \E p \in Procs, m \in SessionMessages : CallGetReply(p, m)
    \/ \E p \in Procs : HandlerStep(p)
    \/ \E p \in Procs : LoopExit(p)
    \/ \E p \in Procs : Return(p)

SpecSession == Init /\ [][NextSession]_vars

\* C19: when SESSION_STORAGE is False or the message has no source, the
\* dispatch reads no session, writes none, and gives None as the session to
\* every handler of two parameters
C19_NoSession ==
    \A p \in Procs :
       (/\ InDispatch(p)
        /\ (config.SESSION_STORAGE = "False" \/ "source" \notin DOMAIN message[p])) =>
          /\ reads[p] = 0
          /\ writes[p] = 0
          /\ \A i \in 1..Len(calls[p]) :
                Len(calls[p][i].args) = 2 => calls[p][i].args[2] = NoneObj

C19_Witness ==
    /\ InDispatch("w1")
    /\ config.SESSION_STORAGE = "False"
    /\ message["w1"] = Msg("text", "u1")
    /\ Len(calls["w1"]) = 1
    /\ calls["w1"][1].func = h2
    /\ calls["w1"][1].args = <<message["w1"], NoneObj>>
    /\ calls["w1"][1].out = "B"

----------------------------------------------------------------------------
(* Picture events *)

RECURSIVE SeqsOf(_, _)
\* the sequences of 1 to n elements of S
SeqsOf(S, n) ==
    IF n = 0 THEN {}
    ELSE LET shorter == SeqsOf(S, n - 1)
         IN {<<x>> : x \in S} \cup shorter
               \cup {Append(q, x) : q \in {r \in shorter : Len(r) = n - 1}, x \in S}

(* One worker serves POST requests whose body is a picture event of 1 to    *)
(* MaxPics pictures, while handlers are registered.                         *)
PicRequests ==
    {Req("POST", "/robot", <<>>, "",
         [Encrypt |-> Absent, msg |-> PicMapping(ev, [i \in 1..Len(hs) |-> Pic(hs[i])])]) :
        ev \in PicEvents, hs \in SeqsOf(Hashes, MaxPics)}
PicTypes == {"pic_sysphoto_event", "all"}
PicFuncs == {hE}

NextPic ==
    \/ \E f \in PicFuncs, t \in PicTypes : Quiet /\ AddHandler(f, t)
    \/ \E p \in Procs, r \in PicRequests : ViewPost(p, r)
    \/ \E p \in Procs : HandlerStep(p)
    \/ \E p \in Procs : LoopExit(p)
    \/ \E p \in Procs : EncryptedReply(p)

SpecPic == InitReg /\ [][NextPic]_vars

\* C20: the pic_list of a picture event has one entry per reported picture,
\* each the pic_md5_sum of that picture: one entry when Count is 1 and item
\* is a single mapping, Count entries in the order of the list when Count is
\* greater than 1 and item is a list
C20_PicList ==
    \A p \in Procs :
       (IsPost(p) /\ "pic_list" \in DOMAIN message[p]) =>
          LET info == request[p].body.msg.SendPicsInfo
              n    == ToInt(info.Count)
              item == info.PicList.item
              pics == message[p].pic_list
          IN /\ Len(pics) = n
             /\ n = 1 => pics = <<[pic_md5_sum |-> item.PicMd5Sum]>>
             /\ n > 1 => \A i \in 1..n : pics[i] = [pic_md5_sum |-> item[i].PicMd5Sum]

C20_Witness ==
    /\ IsPost("w1")
    /\ InDispatch("w1")
    /\ message["w1"].type = "pic_weixin_event"
    /\ request["w1"].body.msg.SendPicsInfo.Count = "2"
    /\ message["w1"].pic_list = <<[pic_md5_sum |-> "md5b"], [pic_md5_sum |-> "md5a"]>>

----------------------------------------------------------------------------
(* Concurrent dispatches *)

(* Two workers call get_reply on messages of one sender while handlers that *)
(* mark the session are registered. The session storage is an object of the *)
(* deployment: one that gives no exclusion, or one under which the          *)
(* dispatches of a sender run one after the other.                          *)
MaxConcHandlers == 2

ConcHandlers == {<<hM, "text">>, <<hB, "all">>}
ConcMessages == {Msg("text", "u1"), Msg("click_event", "u1")}

Serializes(cfg) == cfg.SESSION_STORAGE = "SerializingStorage"

\* what a serializing storage grants: no dispatch for a sender starts while
\* another dispatch for that sender is between its read and its return
MayBegin(p, msg) ==
    Serializes(config) =>
       \A q \in Procs \ {p} :
          pc[q] \in {"loop", "replied"} => message[q].source # msg.source

InitConc ==
    /\ InitRobot
    /\ config \in {Config("tok", "None", st) :
                      st \in {"PlainStorage", "SerializingStorage"}}
    /\ InitWorkers({"w1", "w2"})

NextConc ==
    \/ \E e \in ConcHandlers :
          Quiet /\ TotalEntries(handlers) < MaxConcHandlers /\ AddHandler(e[1], e[2])
    \/ \E p \in Procs, m \in ConcMessages : MayBegin(p, m) /\ CallGetReply(p, m)
    \/ \E p \in Procs : HandlerStep(p)
    \/ \E p \in Procs : LoopExit(p)
    \/ \E p \in Procs : Return(p)

SpecConc == InitConc /\ [][NextConc]_vars

\* a step of some dispatch
DispatchStep ==
    \E p \in Procs : pc'[p] # pc[p] \/ idx'[p] # idx[p] \/ calls'[p] # calls[p]

\* C21: no step of a dispatch, alone or next to another dispatch, adds,
\* removes or reorders an entry of any list of the registry
C21_RegistryReadOnly == [][DispatchStep => handlers' = handlers]_vars

C21_Witness ==
    /\ pc["w1"] = "loop" /\ pc["w2"] = "replied"
    /\ message["w1"].type = "text" /\ message["w2"].type = "click_event"
    /\ calls["w1"] # <<>> /\ calls["w2"] # <<>>
    /\ handlers["text"] # <<>> /\ handlers["all"] # <<>>

\* the marks that the handlers of the last dispatch of p stored are in the
\* stored session of the sender
MarksKept(p) ==
    (ss[p] /\ TruthyId(id[p])) =>
       \A i \in 1..Len(calls[p]) :
          (calls[p][i].func.mark /\ calls[p][i].out # "raise")
             => calls[p][i].func.name \in storage[id[p]].marks

\* a mark that a dispatch of w1 stored is gone from the stored session
LostUpdate ==
    /\ calls["w1"] # <<>> /\ calls["w2"] # <<>>
    /\ calls["w1"][1].func = hM /\ calls["w1"][1].out = ""
    /\ calls["w2"][1].func = hB /\ calls["w2"][1].out = "B"
    /\ storage[to_binary("u1")].marks = {"hB"}

\* C22: get_reply takes no lock: under a storage without exclusion two
\* dispatches for one sender interleave so that the mark stored by one is
\* overwritten by the other, and under a storage that runs the dispatches of
\* a sender one after the other every stored mark is kept
C22_LostUpdateOnlyUnserialized ==
    Serializes(config) => \A p \in Procs : MarksKept(p)

C22_Witness == ~Serializes(config) /\ LostUpdate

----------------------------------------------------------------------------
(* Rejected signatures *)

\* the request of worker p is a POST with a cipher blob whose signature does
\* not verify, sent to a robot that has a key
BadSignaturePost(p) ==
    /\ request[p] # NoneObj
    /\ request[p].method = "POST"
    /\ request[p].body.Encrypt # Absent
    /\ config.ENCODING_AES_KEY # "None"
    /\ ~check_signature(config.TOKEN, request[p].timestamp, request[p].nonce,
                        request[p].body.Encrypt, request[p].msg_signature)

\* C23: when the msgSignature of an encrypted POST does not verify over token,
\* timestamp, nonce and cipher blob, the request ends with CryptoError, no
\* decoding or block decryption of the blob is attempted, and no message is
\* normalized or handed to a handler.
C23_RejectEarly ==
    \A p \in Procs :
        BadSignaturePost(p) =>
            /\ response[p] = Resp(500, EmptyBody, "CryptoError")
            /\ crypt[p] = <<"decrypt_message">>
            /\ message[p] = NoneObj
            /\ calls[p] = <<>>
            /\ pc[p] = "idle"

C23_Witness ==
    /\ BadSignaturePost("w1")
    /\ handlers["text"] # <<>>
    /\ response["w1"] = Resp(500, EmptyBody, "CryptoError")

----------------------------------------------------------------------------
(* Signature checks: robot.check_signature is called with tokens, time       *)
(* stamps, nonces, extra strings and signatures that differ in one place.    *)

SigTokens == {"tok", "ab", "ba"}
SigTimestamps == {TS, "ab"}
SigNonces == {NONCE, "aba"}
SigExtras == {MsgBlob, "ba"}
Signatures ==
    {get_signature(t, ts, n, e) :
        t \in SigTokens, ts \in SigTimestamps, n \in SigNonces, e \in SigExtras}
    \cup {<<>>}
SigRequests ==
    {[method |-> "CALL", url |-> "", timestamp |-> ts, nonce |-> n,
      msg_signature |-> sig, echostr |-> e, body |-> NoBody] :
        ts \in SigTimestamps, n \in SigNonces, e \in SigExtras, sig \in Signatures}

\* robot.check_signature(timestamp, nonce, echostr, signature) called directly;
\* its result is kept in verified
CheckSignature(p, req) ==
    /\ pc[p] = "idle"
    /\ request' = [request EXCEPT ![p] = req]
    /\ verified' = [verified EXCEPT ![p] =
          robot_check_signature(config, req.timestamp, req.nonce, req.echostr,
                                req.msg_signature)]
    /\ UNCHANGED <<robotVars, storage, regResult, pc, localVars, response, calls,
                   reads, writes, crypt, log>>
    /\ UNCHANGED clientVars

InitSig ==
    /\ InitRobot
    /\ config \in {Config(t, "None", "None") : t \in SigTokens}
    /\ InitWorkers({"w1"})

NextSig == \E p \in Procs, req \in SigRequests : CheckSignature(p, req)

SpecSig == InitSig /\ [][NextSig]_vars

\* the string that is digested for a check
Digested(token, timestamp, nonce, extra) ==
    Join(Sorted(<<Chars(token), Chars(timestamp), Chars(nonce), Chars(extra)>>))

\* worker p has had a signature checked
Checked(p) == request[p] # NoneObj /\ request[p].method = "CALL"

\* the check answers true exactly for the digest of the sorted concatenation
TrueIffDigest(p) ==
    verified[p] = (request[p].msg_signature =
                     sha1(Digested(config.TOKEN, request[p].timestamp,
                                   request[p].nonce, request[p].echostr)))

\* another signature for the inputs of an accepted check is refused
SignatureChangeFlips(p) ==
    \A sig \in Signatures \ {request[p].msg_signature} :
        ~robot_check_signature(config, request[p].timestamp, request[p].nonce,
                               request[p].echostr, sig)

\* the answers for the accepted signature of worker p when one input is
\* exchanged: Ok(t, ts, n, e, answer) is asked of every such exchange
OneInputChanged(p, Ok(_, _, _, _, _)) ==
    LET r == request[p]
        A(t, ts, n, e) == check_signature(t, ts, n, e, r.msg_signature)
    IN /\ \A t \in SigTokens \ {config.TOKEN} :
             Ok(t, r.timestamp, r.nonce, r.echostr,
                A(t, r.timestamp, r.nonce, r.echostr))
       /\ \A ts \in SigTimestamps \ {r.timestamp} :
             Ok(config.TOKEN, ts, r.nonce, r.echostr,
                A(config.TOKEN, ts, r.nonce, r.echostr))
       /\ \A n \in SigNonces \ {r.nonce} :
             Ok(config.TOKEN, r.timestamp, n, r.echostr,
                A(config.TOKEN, r.timestamp, n, r.echostr))
       /\ \A e \in SigExtras \ {r.echostr} :
             Ok(config.TOKEN, r.timestamp, r.nonce, e,
                A(config.TOKEN, r.timestamp, r.nonce, e))

\* C25 as stated: verification is true iff the signature is the digest of the
\* sorted concatenation of token, timestamp, nonce and extra, and after an
\* accepted check the change of any one input or of the signature gives false.
C25_AnyChangeFlips ==
    \A p \in Procs :
        Checked(p) =>
            /\ TrueIffDigest(p)
            /\ verified[p] =>
                  /\ SignatureChangeFlips(p)
                  /\ LET Refused(t, ts, n, e, answer) == ~answer
                     IN OneInputChanged(p, Refused)

\* C25 amended: verification is true iff the signature is the digest of the
\* sorted concatenation; after an accepted check another signature gives
\* false, and a change of one input gives false exactly when the sorted
\* concatenation of the changed inputs is another string.
C25_ChangeFlipsUnlessSameString ==
    \A p \in Procs :
        Checked(p) =>
            /\ TrueIffDigest(p)
            /\ verified[p] =>
                  /\ SignatureChangeFlips(p)
                  /\ LET SameString(t, ts, n, e, answer) ==
                            answer = (Digested(t, ts, n, e) =
                                        Digested(config.TOKEN, request[p].timestamp,
                                                 request[p].nonce, request[p].echostr))
                     IN OneInputChanged(p, SameString)

\* an accepted check of token ab with nonce aba: the token ba gives the same
\* concatenation ababa
C25_Witness ==
    /\ Checked("w1") /\ verified["w1"]
    /\ config.TOKEN = "ab" /\ request["w1"].nonce = "aba"
    /\ request["w1"].timestamp = TS /\ request["w1"].echostr = MsgBlob
    /\ check_signature("ba", TS, "aba", MsgBlob, request["w1"].msg_signature)

----------------------------------------------------------------------------
(* The crypto engine at the level of bytes: frame, padding, block cipher in  *)
(* chained mode, base64, signature. The engine is the one the cached         *)
(* property crypto builds from the configuration.                            *)

\* longest plaintext payload handed to encrypt
MaxPlain == 2

BlockSize == 16
PrefixLen == 16
CorpId == <<99, 111, 114, 112, 48, 48, 48, 48, 48, 49>>      \* corp000001
\* the bytes of the key that the configured secret decodes to
KeyBytes(secret) == [i \in 1..BlockSize |-> (37 * i + 11) % 256]

\* MessageCrypt(token, encoding_aes_key, corp_id) of lines 134-138
MessageCrypt(cfg) ==
    [token |-> Chars(cfg.TOKEN), key |-> KeyBytes(cfg.ENCODING_AES_KEY),
     corp_id |-> CorpId]

\* the 4-byte big-endian length and its reading
Pack(n) == <<(n \div 16777216) % 256, (n \div 65536) % 256, (n \div 256) % 256, n % 256>>
Unpack(b) == b[1] * 16777216 + b[2] * 65536 + b[3] * 256 + b[4]

\* padding that adds nothing to an input that is already block-aligned
pkcs7_pad_unaligned_only(bytes) ==
    LET pad == (BlockSize - (Len(bytes) % BlockSize)) % BlockSize
    IN bytes \o [i \in 1..pad |-> pad]

\* the pad length encodes the number of pad bytes; an aligned input gets one
\* full block
pkcs7_pad(bytes) ==
    LET pad == BlockSize - (Len(bytes) % BlockSize)
    IN bytes \o [i \in 1..pad |-> pad]

\* the last byte tells how many bytes to strip
pkcs7_unpad(bytes) ==
    IF bytes = <<>> THEN <<>>
    ELSE SubSeq(bytes, 1, Len(bytes) - bytes[Len(bytes)])

\* the block cipher on one block: a keyed substitution and a rotation
BlockEnc(key, b) ==
    [i \in 1..BlockSize |-> (b[(i % BlockSize) + 1] + key[i]) % 256]
BlockDec(key, c) ==
    [i \in 1..BlockSize |->
        LET j == ((i + BlockSize - 2) % BlockSize) + 1
        IN (c[j] + 256 - key[j]) % 256]
Mix(a, b) == [i \in 1..BlockSize |-> (a[i] + b[i]) % 256]
Unmix(a, b) == [i \in 1..BlockSize |-> (a[i] + 256 - b[i]) % 256]

\* chained mode: every block is mixed with the cipher block before it
RECURSIVE cbc_encrypt(_, _, _)
cbc_encrypt(key, prev, bytes) ==
    IF Len(bytes) < BlockSize THEN <<>>
    ELSE LET c == BlockEnc(key, Mix(SubSeq(bytes, 1, BlockSize), prev))
         IN c \o cbc_encrypt(key, c, SubSeq(bytes, BlockSize + 1, Len(bytes)))

RECURSIVE cbc_decrypt(_, _, _)
cbc_decrypt(key, prev, bytes) ==
    IF Len(bytes) < BlockSize THEN <<>>
    ELSE LET c == SubSeq(bytes, 1, BlockSize)
         IN Unmix(BlockDec(key, c), prev)
               \o cbc_decrypt(key, c, SubSeq(bytes, BlockSize + 1, Len(bytes)))

\* the base64 alphabet: A-Z, a-z, 0-9, + and /, as ASCII codes
B64Char(v) ==
    IF v < 26 THEN 65 + v
    ELSE IF v < 52 THEN 97 + (v - 26)
    ELSE IF v < 62 THEN 48 + (v - 52)
    ELSE IF v = 62 THEN 43 ELSE 47
B64Val(c) == CHOOSE v \in 0..63 : B64Char(v) = c
B64Pad == 61

RECURSIVE b64encode(_)
b64encode(bytes) ==
    IF bytes = <<>> THEN <<>>
    ELSE IF Len(bytes) = 1
    THEN <<B64Char(bytes[1] \div 4), B64Char((bytes[1] % 4) * 16), B64Pad, B64Pad>>
    ELSE IF Len(bytes) = 2
    THEN <<B64Char(bytes[1] \div 4),
           B64Char((bytes[1] % 4) * 16 + bytes[2] \div 16),
           B64Char((bytes[2] % 16) * 4), B64Pad>>
    ELSE <<B64Char(bytes[1] \div 4),
           B64Char((bytes[1] % 4) * 16 + bytes[2] \div 16),
           B64Char((bytes[2] % 16) * 4 + bytes[3] \div 64),
           B64Char(bytes[3] % 64)>> \o b64encode(SubSeq(bytes, 4, Len(bytes)))

RECURSIVE b64decode(_)
b64decode(chars) ==
    IF Len(chars) < 4 THEN <<>>
    ELSE LET a == B64Val(chars[1])
             b == B64Val(chars[2])
         IN IF chars[3] = B64Pad
            THEN <<a * 4 + b \div 16>>
            ELSE IF chars[4] = B64Pad
            THEN <<a * 4 + b \div 16, (b % 16) * 16 + B64Val(chars[3]) \div 4>>
            ELSE <<a * 4 + b \div 16,
                   (b % 16) * 16 + B64Val(chars[3]) \div 4,
                   (B64Val(chars[3]) % 4) * 64 + B64Val(chars[4])>>
                    \o b64decode(SubSeq(chars, 5, Len(chars)))

\* encrypt of the engine c: frame, pad, encrypt, encode, sign, wrap
encrypt(c, plaintext, timestamp, nonce, prefix) ==
    LET frame == prefix \o Pack(Len(plaintext)) \o plaintext \o c.corp_id
        blob == b64encode(cbc_encrypt(c.key, c.key, pkcs7_pad(frame)))
    IN [Encrypt |-> blob,
        MsgSignature |-> signature_of(<<c.token, Chars(timestamp), Chars(nonce), blob>>),
        TimeStamp |-> timestamp, Nonce |-> nonce]

\* decrypt of the engine c: verify, decode, decrypt, strip, parse, compare the
\* account id
decrypt(c, timestamp, nonce, msg_signature, blob) ==
    LET frame == pkcs7_unpad(cbc_decrypt(c.key, c.key, b64decode(blob)))
        n == Unpack(SubSeq(frame, PrefixLen + 1, PrefixLen + 4))
        body == SubSeq(frame, PrefixLen + 5, Len(frame))
    IN IF msg_signature # signature_of(<<c.token, Chars(timestamp), Chars(nonce), blob>>)
       THEN [exc |-> "CryptoError", plain |-> <<>>]
       ELSE IF Len(frame) < PrefixLen + 4 \/ Len(body) < n
       THEN [exc |-> "CryptoError", plain |-> <<>>]
       ELSE IF SubSeq(body, n + 1, Len(body)) # c.corp_id
       THEN [exc |-> "CryptoError", plain |-> <<>>]
       ELSE [exc |-> "none", plain |-> SubSeq(body, 1, n)]

PlainBytes == {109, 120}
Payloads == {<<>>} \cup SeqsOf(PlainBytes, MaxPlain)
Prefixes == {[i \in 1..PrefixLen |-> r] : r \in {7, 200}}
CryptTimestamps == {TS, "ab"}
CryptNonces == {NONCE, "aba"}

\* robot.crypto.encrypt_message: the envelope is kept in reply
Encrypt(p, plaintext, timestamp, nonce, prefix) ==
    /\ pc[p] = "idle"
    /\ LET c == crypto_property(config, crypto_cached, use_encryption)
       IN /\ c.exc = "none"
          /\ crypto_cached' = c.cached
          /\ use_encryption' = c.use_encryption
    /\ request' = [request EXCEPT ![p] =
          [method |-> "ENCRYPT", plain |-> plaintext, timestamp |-> timestamp,
           nonce |-> nonce, prefix |-> prefix]]
    /\ reply' = [reply EXCEPT ![p] =
          encrypt(MessageCrypt(config), plaintext, timestamp, nonce, prefix)]
    /\ response' = [response EXCEPT ![p] = NoneObj]
    /\ crypt' = [crypt EXCEPT ![p] = <<"encrypt_message">>]
    /\ pc' = [pc EXCEPT ![p] = "encrypted"]
    /\ UNCHANGED <<handlers, make_error_page, config, storage, regResult, message,
                   ss, id, session, hlist, idx, calls, reads, writes, verified, log>>
    /\ UNCHANGED clientVars

\* robot.crypto.decrypt_message on the envelope, with the time stamp and the
\* nonce of the caller
Decrypt(p, timestamp, nonce) ==
    /\ pc[p] = "encrypted"
    /\ request' = [request EXCEPT ![p] =
          [method |-> "DECRYPT", plain |-> @.plain, timestamp |-> @.timestamp,
           nonce |-> @.nonce, prefix |-> @.prefix,
           same |-> (timestamp = @.timestamp /\ nonce = @.nonce)]]
    /\ response' = [response EXCEPT ![p] =
          decrypt(MessageCrypt(config), timestamp, nonce, reply[p].MsgSignature,
                  reply[p].Encrypt)]
    /\ crypt' = [crypt EXCEPT ![p] = @ \o <<"decrypt_message">>]
    /\ pc' = [pc EXCEPT ![p] = "idle"]
    /\ UNCHANGED <<robotVars, storage, regResult, localVars, calls, reads, writes,
                   verified, log>>
    /\ UNCHANGED clientVars

InitCrypt ==
    /\ InitRobot
    /\ config = Config("tok", "aeskey", "None")
    /\ InitWorkers({"w1"})

NextCrypt ==
    \/ \E p \in Procs, pl \in Payloads, ts \in CryptTimestamps, n \in CryptNonces,
          r \in Prefixes : Encrypt(p, pl, ts, n, r)
    \/ \E p \in Procs, ts \in CryptTimestamps, n \in CryptNonces : Decrypt(p, ts, n)

SpecCrypt == InitCrypt /\ [][NextCrypt]_vars

\* worker p has decrypted an envelope
Decrypted(p) == request[p] # NoneObj /\ request[p].method = "DECRYPT"

\* C24: decrypting the cipher blob that encrypt produced for a payload, with
\* the same time stamp and nonce and the signature produced alongside it,
\* returns exactly that payload.
C24_RoundTrip ==
    \A p \in Procs :
        (Decrypted(p) /\ request[p].same) =>
            response[p] = [exc |-> "none", plain |-> request[p].plain]

\* a round trip of a payload whose frame is block-aligned before padding
C24_Witness ==
    /\ Decrypted("w1") /\ request["w1"].same
    /\ Len(request["w1"].plain) = 2
    /\ response["w1"].exc = "none"
    /\ Len(reply["w1"].Encrypt) = 64

----------------------------------------------------------------------------
(* The access token of the client: get_access_token is called while the     *)
(* clock advances and the platform answers the grant in every way that       *)
(* request and check_error tell apart.                                       *)

\* ticks of the clock
MaxTicks == 5
TickSeconds == 30

\* time.time()
Now(c) == c * TickSeconds

Tokens == {"T1", "T2"}
Lifetimes == {60, 120}
\* the answers to the grant: a complete one, an HTTP error status, an error
\* code, an empty object, one without access_token, one without expires_in
Grants ==
    {[kind |-> "ok", access_token |-> t, expires_in |-> x] : t \in Tokens, x \in Lifetimes}
    \cup {[kind |-> k, access_token |-> t, expires_in |-> 0] :
             k \in {"http_error", "errcode", "empty", "no_token", "no_expires_in"},
             t \in {"T2"}}

\* check_error (lines 16-23): an error code other than 0 raises
check_error(json) ==
    IF json.kind = "errcode" THEN [exc |-> "ClientException"] ELSE [exc |-> "none"]

\* Client.request as grant_token uses it (lines 52-64 and 82-94):
\* raise_for_status, then check_error; an empty object is falsy and request
\* returns None for it
grant_token(json) ==
    IF json.kind = "http_error" THEN [exc |-> "HTTPError", json |-> NoneObj]
    ELSE IF check_error(json).exc # "none"
    THEN [exc |-> check_error(json).exc, json |-> NoneObj]
    ELSE IF json.kind = "empty" THEN [exc |-> "none", json |-> NoneObj]
    ELSE [exc |-> "none", json |-> json]

Outcome(c, ret, exc, requested, at) ==
    [client |-> c, ret |-> ret, exc |-> exc, requested |-> requested, at |-> at]

\* Client.get_access_token (lines 96-111) for the client c, the times now and
\* later that the two calls of time.time() read, and the answer to the grant
get_access_token(c, now, later, json) ==
    LET g == grant_token(json)
        withToken == [c EXCEPT !.token = g.json.access_token]
    IN IF c.token # NoneVal /\ c.token_expires_at = NoTime
       THEN Outcome(c, NoneVal, "TypeError", FALSE, now)
       ELSE IF c.token # NoneVal /\ c.token_expires_at[1] - now > 60
       THEN Outcome(c, c.token, "none", FALSE, now)
       ELSE IF g.exc # "none" THEN Outcome(c, NoneVal, g.exc, TRUE, later)
       ELSE IF g.json = NoneObj THEN Outcome(c, NoneVal, "TypeError", TRUE, later)
       ELSE IF g.json.kind = "no_token" THEN Outcome(c, NoneVal, "KeyError", TRUE, later)
       ELSE IF g.json.kind = "no_expires_in"
       THEN Outcome(withToken, NoneVal, "KeyError", TRUE, later)
       ELSE Outcome([token |-> g.json.access_token,
                     token_expires_at |-> At(later + g.json.expires_in)],
                    g.json.access_token, "none", TRUE, later)

\* a call of client.get_access_token(); the grant takes d ticks
GetAccessToken(p, json, d) ==
    /\ pc[p] = "idle"
    /\ clock + d <= MaxTicks
    /\ LET r == get_access_token(client, Now(clock), Now(clock + d), json)
       IN /\ client' = r.client
          /\ clock' = IF r.requested THEN clock + d ELSE clock
          /\ request' = [request EXCEPT ![p] =
                [method |-> "get_access_token", before |-> client,
                 now |-> Now(clock), json |-> json]]
          /\ response' = [response EXCEPT ![p] =
                [ret |-> r.ret, exc |-> r.exc, requested |-> r.requested, at |-> r.at]]
    /\ UNCHANGED <<robotVars, storage, regResult, pc, localVars, histVars>>

\* time passes
Tick ==
    /\ clock < MaxTicks
    /\ clock' = clock + 1
    /\ UNCHANGED <<robotVars, storage, regResult, pc, request, localVars, response,
                   histVars, client>>

InitToken ==
    /\ InitRobot
    /\ config = Config("tok", "None", "None")
    /\ InitWorkers({"w1"})

NextToken ==
    \/ \E p \in Procs, json \in Grants, d \in {0, 1} : GetAccessToken(p, json, d)
    \/ Tick

SpecToken == InitToken /\ [][NextToken]_vars

\* worker p has called get_access_token
AskedToken(p) == request[p] # NoneObj /\ request[p].method = "get_access_token"

\* the client held a token whose expiry was more than 60 seconds ahead
CachedFresh(p) ==
    /\ request[p].before.token # NoneVal
    /\ request[p].before.token_expires_at # NoTime
    /\ request[p].before.token_expires_at[1] - request[p].now > 60

\* C26: get_access_token returns the cached token without a grant exactly
\* when a token is cached and its expiry is more than 60 seconds ahead;
\* otherwise it requests a new token, and a complete answer is stored with
\* expiry = now + expires_in and returned.
C26_TokenCache ==
    \A p \in Procs :
        AskedToken(p) =>
            IF CachedFresh(p)
            THEN /\ ~response[p].requested
                 /\ response[p].exc = "none"
                 /\ response[p].ret = request[p].before.token
            ELSE /\ response[p].requested
                 /\ request[p].json.kind = "ok" =>
                       /\ response[p].exc = "none"
                       /\ response[p].ret = request[p].json.access_token
                       /\ client = [token |-> request[p].json.access_token,
                                    token_expires_at |->
                                       At(response[p].at + request[p].json.expires_in)]

\* C27: a client that holds a token holds an expiry time
C27_TokenImpliesExpiry == client.token # NoneVal => client.token_expires_at # NoTime

----------------------------------------------------------------------------
(* Registrations that raise *)

\* C28: whenever add_filter raises, the handler registry is exactly as it was
\* before the call, also when the invalid rule is not the first of several.
C28_AllOrNothing ==
    [][(/\ regResult' # NoneObj
        /\ regResult'.via = "add_filter"
        /\ regResult'.result # "ok") => handlers' = handlers]_vars

----------------------------------------------------------------------------
(* Two senders: one worker dispatches messages of u1 and of u2 to handlers   *)
(* that leave marks in the session.                                          *)

MaxIsoHandlers == 2
IsoHandlers == {<<hM, "all">>, <<hB, "text">>}
IsoMessages == {Msg("text", s) : s \in Senders} \cup {Msg("click_event", "u2")}

NextIso ==
    \/ \E e \in IsoHandlers :
          Quiet /\ TotalEntries(handlers) < MaxIsoHandlers /\ AddHandler(e[1], e[2])
    \/ \E p \in Procs, m \in IsoMessages : CallGetReply(p, m)
    \/ \E p \in Procs : HandlerStep(p)
    \/ \E p \in Procs : LoopExit(p)
    \/ \E p \in Procs : Return(p)

SpecIso == InitReg /\ [][NextIso]_vars

\* C29: the dispatch of a message reads the storage entry of its sender's id
\* and writes only that entry; the stored session of every other sender is
\* the same after each of its steps.
C29_SessionIsolation ==
    [][\A p \in Procs :
          (message'[p] # NoneObj /\ pc[p] \in {"idle", "loop"}) =>
             LET own == to_binary(message'[p].source)
             IN /\ \A i \in Ids \ {own} : storage'[i] = storage[i]
                /\ (pc[p] = "idle" /\ pc'[p] = "loop") =>
                      /\ id'[p] = own
                      /\ session'[p] = storage[own]]_vars

\* u2's dispatch has stored its marks while the session of u1 is the one that
\* u1's earlier dispatch left
C29_Witness ==
    /\ message["w1"] = Msg("text", "u2")
    /\ writes["w1"] = 1
    /\ storage[to_binary("u2")].marks = {"hB"}
    /\ storage[to_binary("u1")].marks = {"hM"}

----------------------------------------------------------------------------
(* The mapping a picture event was built from *)

\* the mapping of worker p's request as the construction of the event left it
MappingAfter(p) ==
    [request[p].body.msg EXCEPT !.SendPicsInfo = message[p].SendPicsInfo]

\* C30: constructing a picture event leaves the mapping it was built from
\* unchanged, SendPicsInfo.PicList.item included, and normalizing the same
\* mapping a second time gives an event with an equal pic_list.
C30_InputUnchanged ==
    \A p \in Procs :
       (IsPost(p) /\ "pic_list" \in DOMAIN message[p]) =>
          /\ MappingAfter(p) = request[p].body.msg
          /\ BasePicEvent_init(MappingAfter(p)).exc = "none"
          /\ BasePicEvent_init(MappingAfter(p)).pic_list = message[p].pic_list

====
